---- MODULE Spec2Model ----
(***************************************************************************)
(* BirdiePDF: the document viewport engine formed by App (page, zoom,      *)
(* search state; unnamed/part_001) and PDFViewer (render set, programmatic *)
(* scroll, fit computations, search scan; lib/components/PDFViewer.tsx).   *)
(*                                                                         *)
(* React state is a variable; a handler together with the render and the   *)
(* effects it triggers is one action.  The one effect modelled as a step   *)
(* of its own is the re-creation of the IntersectionObserver after         *)
(* handleIntersect has called setRenderedPages (Commit): until it runs,    *)
(* the live observer still calls the handleIntersect that closed over the  *)
(* previous renderedPages.                                                 *)
(*                                                                         *)
(* undefined / null page numbers are 0; numPages = 0 stands for null.      *)
(***************************************************************************)
EXTENDS Integers, Sequences, FiniteSets, TLC

\* ---------------------------------------------------------------- bounds
MaxRun == 3         \* length of the text runs searched
MaxSubmits == 1     \* search submissions followed
MaxPages == 7       \* page count of the long document

\* ------------------------------------------------------ program constants
PAGES_TO_PRELOAD_BUFFER == 3

\* ------------------------------------------------------------- documents
\* The documents the file dialog can deliver: a long one, two short ones
\* and an unreadable one.
LongDoc == "long"
MidDoc == "mid"
ShortDoc == "short"
BadDoc == "bad"
AnyDoc == "any"     \* a two-page document with any text
Kinds == {LongDoc, MidDoc, ShortDoc, BadDoc, AnyDoc}

PagesOf(k) == CASE k = LongDoc -> MaxPages
                [] k = MidDoc -> 3
                [] k = ShortDoc -> 2
                [] k = AnyDoc -> 2
                [] OTHER -> 0

Corrupt(k) == k = BadDoc

\* Text runs are sequences of one-character strings.
TextOf(k, p) ==
  CASE k = MidDoc /\ p = 1 -> << <<"C", "a", "t">>, <<"a", "a", "a">> >>
    [] k = MidDoc /\ p = 2 -> << <<"c", "a", "t", "s">> >>
    [] k = ShortDoc /\ p = 1 -> << <<"d", "o", "g">> >>
    [] k = ShortDoc /\ p = 2 -> << <<"h", "a", "t">> >>
    [] OTHER -> << >>

\* pageData.originalWidth / originalHeight
GeomOf(k, p) ==
  CASE k = ShortDoc -> [width |-> 400, height |-> 400]
    [] k = MidDoc /\ p = 2 -> [width |-> 800, height |-> 600]
    [] OTHER -> [width |-> 600, height |-> 800]

\* clientWidth / clientHeight of the page container; 0 while it is hidden
ContainerSizes == {[width |-> 0, height |-> 0], [width |-> 300, height |-> 500],
                   [width |-> 600, height |-> 500], [width |-> 5, height |-> 500]}

\* clientWidth / clientHeight of the viewer container in fullscreen
TargetSizes == {[width |-> 1200, height |-> 800], [width |-> 600, height |-> 500]}

\* a page-indexed table with no entry
NoPages == [p \in {} |-> <<>>]

\* {...prev, [pageNumber]: value}
Put(table, p, value) ==
  [q \in DOMAIN table \cup {p} |-> IF q = p THEN value ELSE table[q]]

Max(a, b) == IF a >= b THEN a ELSE b
Min(a, b) == IF a <= b THEN a ELSE b

VARIABLES
  \* App state
  pdfFile,            \* 1 once App holds a Blob, 0 = null
  page,
  totalPages,
  goToPageNumber,     \* 0 = undefined
  goToResetTimer,     \* the 300 ms reset timeout is pending
  \* PDFViewer state
  numPages,           \* 0 = null
  loadError,
  renderedPages,
  observedRendered,   \* renderedPages as closed over by the live observer
  renderPending,      \* setRenderedPages from handleIntersect not yet committed
  lastProgrammaticScrollToPageRef,
  visiblePageTimeout, \* entries captured by the pending 200 ms timeout, <<>> = none
  searchQuery,
  searchMatches,
  currentMatchIndex,
  searchTriggerCounter,
  showSearchInput,
  textItemsByPage,    \* page -> text runs, for the pages indexed so far
  zoom,               \* percent, a fraction <<numerator, denominator>>
  viewMode,
  calculationTargetDimensions,   \* <<>> = null
  isFullScreen,
  fullScreenFrame,    \* a requestAnimationFrame callback of the fullscreen handler is pending
  originalPageDimensionsRef,     \* page -> [width, height], for the pages loaded so far
  pageContainerSize,  \* size of the page container element
  fitRetry,           \* page captured by the pending fit-width retry timeout, 0 = none
  \* rendering collaborator
  docKind,            \* content behind pdfFile
  loading,            \* Document load in flight
  pendingText,        \* getTextContent() promises not yet resolved
  resultsEmitted,     \* the latest step called onSearchResults
  scaleEmitted,       \* scale passed to onOptimalScaleCalculated by the latest step, <<>> = none
  scaleEmittedBy,     \* the view mode whose effect passed it
  retryArmed,         \* the latest step started a fit retry timeout
  \* outputs of the latest step and request history
  scrollEmitted,      \* page scrolled into view by the latest step, 0 = none
  navLog,             \* the latest explicit go-to-page requests
  searchSession,      \* "submitted" since the latest search submission that ran,
                      \* "closed" since the latest closing of the search input
  \* scroll coordinator
  userHadRecentScroll,   \* userHadRecentScroll.current
  userScrollTimeoutRef,  \* id of the timeout set by the latest scroll event, 0 = null
  userScrollTimers       \* ids of the quiet timeouts that are pending

searchVars == <<searchQuery, searchMatches, currentMatchIndex,
                searchTriggerCounter, resultsEmitted, showSearchInput,
                searchSession>>

scaleVars == <<zoom, viewMode, calculationTargetDimensions, fitRetry,
               scaleEmitted, scaleEmittedBy, retryArmed>>

pageDataVars == <<textItemsByPage, originalPageDimensionsRef, pendingText>>

screenVars == <<isFullScreen, fullScreenFrame>>

scrollVars == <<userHadRecentScroll, userScrollTimeoutRef, userScrollTimers>>

vars == <<pdfFile, page, totalPages, goToPageNumber, goToResetTimer, numPages,
          loadError, renderedPages, observedRendered, renderPending,
          lastProgrammaticScrollToPageRef, visiblePageTimeout, docKind,
          loading, scrollEmitted, navLog, searchQuery, searchMatches,
          currentMatchIndex, searchTriggerCounter, resultsEmitted,
          textItemsByPage, zoom, viewMode, calculationTargetDimensions,
          originalPageDimensionsRef, pageContainerSize, fitRetry, pendingText,
          scaleEmitted, isFullScreen, fullScreenFrame, scaleEmittedBy, retryArmed,
          showSearchInput, searchSession, userHadRecentScroll,
          userScrollTimeoutRef, userScrollTimers>>

NoTimeout == <<>>

\* ----------------------------------------------------------- RenderWindow
NeighborhoodBehindOnly(p, n) ==
  { i \in 1..MaxPages + 1 :
      /\ i >= Max(1, p - PAGES_TO_PRELOAD_BUFFER)
      /\ i <= Min(n, p) }

NeighborhoodUnclamped(p, n) ==
  { i \in 1..MaxPages + 1 :
      /\ i >= Max(1, p - PAGES_TO_PRELOAD_BUFFER)
      /\ i <= p + PAGES_TO_PRELOAD_BUFFER }

\* for (i = max(1, p - B); i <= min(numPages, p + B); i++)
Neighborhood(p, n) ==
  { i \in 1..MaxPages + 1 :
      /\ i >= Max(1, p - PAGES_TO_PRELOAD_BUFFER)
      /\ i <= Min(n, p + PAGES_TO_PRELOAD_BUFFER) }

InitialPagesNoAnchor(n, anchor) ==
  IF n > 0
    THEN { i \in 1..MaxPages + 1 : i <= Min(n, PAGES_TO_PRELOAD_BUFFER + 1) }
    ELSE {}

\* onDocumentLoadSuccess: initialPages
InitialPages(n, anchor) ==
  IF n > 0
    THEN { i \in 1..MaxPages + 1 : i <= Min(n, PAGES_TO_PRELOAD_BUFFER + 1) }
         \cup (IF anchor # 0 THEN Neighborhood(anchor, n) ELSE {})
    ELSE {}

\* The page <div>s that exist: none while the Document shows its loading or
\* error content.
DocumentShown == pdfFile # 0 /\ ~loadError /\ ~loading /\ numPages > 0

PageRefs == IF DocumentShown THEN 1..numPages ELSE {}

\* ------------------------------------------------------------------ Init
Init ==
  /\ pdfFile = 0
  /\ page = 1
  /\ totalPages = 1
  /\ goToPageNumber = 0
  /\ goToResetTimer = FALSE
  /\ numPages = 0
  /\ loadError = FALSE
  /\ renderedPages = {}
  /\ observedRendered = {}
  /\ renderPending = FALSE
  /\ lastProgrammaticScrollToPageRef = 0
  /\ visiblePageTimeout = NoTimeout
  /\ docKind = 0
  /\ loading = FALSE
  /\ scrollEmitted = 0
  /\ navLog = <<>>
  /\ searchQuery = <<>>
  /\ searchMatches = <<>>
  /\ currentMatchIndex = -1
  /\ searchTriggerCounter = 0
  /\ showSearchInput = FALSE
  /\ searchSession = "none"
  /\ resultsEmitted = FALSE
  /\ textItemsByPage = NoPages
  /\ zoom = <<100, 1>>
  /\ viewMode = "default"
  /\ calculationTargetDimensions = <<>>
  /\ isFullScreen = FALSE
  /\ fullScreenFrame = FALSE
  /\ originalPageDimensionsRef = NoPages
  /\ pageContainerSize = [width |-> 300, height |-> 500]
  /\ fitRetry = 0
  /\ pendingText = {}
  /\ scaleEmitted = <<>>
  /\ scaleEmittedBy = "default"
  /\ retryArmed = FALSE
  /\ userHadRecentScroll = FALSE
  /\ userScrollTimeoutRef = 0
  /\ userScrollTimers = {}

\* ------------------------------------------------------------ SearchIndex
\* String.prototype.toLowerCase, on one character
\* "Idot" is the code unit U+0130 (capital I with dot above), whose lower
\* case is the two code units "i" and "dot" (U+0069 U+0307).
ToLowerChar(c) ==
  CASE c = "A" -> <<"a">>
    [] c = "C" -> <<"c">>
    [] c = "T" -> <<"t">>
    [] c = "Idot" -> <<"i", "dot">>
    [] OTHER -> <<c>>

RECURSIVE ToLowerCase(_)
ToLowerCase(str) ==
  IF str = <<>> THEN <<>> ELSE ToLowerChar(Head(str)) \o ToLowerCase(Tail(str))

NotEmpty(str) == str # <<>>

\* searchQuery.trim() !== ''
NotBlank(str) == \E i \in DOMAIN str : str[i] # " "

\* text.indexOf(q, from), 0-based, -1 when absent
IndexOf(text, q, from) ==
  LET hits == { i \in from..(Len(text) - Len(q)) :
                  \A j \in 1..Len(q) : text[i + j] = q[j] }
  IN  IF hits = {} THEN -1 ELSE CHOOSE i \in hits : \A h \in hits : i <= h

\* the while loop over one text item: the matches from startIndex on
RECURSIVE ItemMatches(_, _, _, _, _)
ItemMatches(pageNum, itemIdx, item, query, startIndex) ==
  IF startIndex = -1 THEN <<>>
  ELSE <<[pageIndex |-> pageNum - 1, itemIndex |-> itemIdx, text |-> item,
          query |-> query, startIndexInItem |-> startIndex,
          endIndexInItem |-> startIndex + Len(ToLowerCase(query))]>>
       \o ItemMatches(pageNum, itemIdx, item, query,
                      IndexOf(ToLowerCase(item), ToLowerCase(query), startIndex + 1))

RECURSIVE PageMatchesLastFirst(_, _, _, _)
PageMatchesLastFirst(pageNum, items, k, query) ==
  IF k > Len(items) THEN <<>>
  ELSE PageMatchesLastFirst(pageNum, items, k + 1, query)
       \o ItemMatches(pageNum, k - 1, items[k], query,
                      IndexOf(ToLowerCase(items[k]), ToLowerCase(query), 0))

\* pageTextItems.forEach((item, itemIdx) => ...), itemIdx 0-based
RECURSIVE PageMatches(_, _, _, _)
PageMatches(pageNum, items, k, query) ==
  IF k > Len(items) THEN <<>>
  ELSE ItemMatches(pageNum, k - 1, items[k], query,
                   IndexOf(ToLowerCase(items[k]), ToLowerCase(query), 0))
       \o PageMatches(pageNum, items, k + 1, query)

\* for (pageNum = 1; pageNum <= numPages; pageNum++): textItemsByPage[pageNum] || []
RECURSIVE AllMatches(_, _, _, _)
AllMatches(pageNum, n, table, query) ==
  IF pageNum > n THEN <<>>
  ELSE PageMatches(pageNum, IF pageNum \in DOMAIN table THEN table[pageNum] ELSE <<>>,
                   1, query)
       \o AllMatches(pageNum + 1, n, table, query)

SearchRunsUntriggered(trigger, query, n) == NotBlank(query) /\ n # 0

\* the guard of the search effect
SearchRuns(trigger, query, n) == trigger # 0 /\ NotBlank(query) /\ n # 0

\* The search effect of PDFViewer with App.onSearchResults: runs when one of
\* [triggerSearch, searchQuery, numPages, textItemsByPage] changed.
SearchEffect(depsChanged, trigger, query, n, table) ==
  IF depsChanged /\ SearchRuns(trigger, query, n)
    THEN LET found == AllMatches(1, n, table, query)
         IN  /\ searchMatches' = found
             /\ currentMatchIndex' = (IF Len(found) > 0 THEN 0 ELSE -1)
             /\ resultsEmitted' = TRUE
    ELSE /\ UNCHANGED <<searchMatches, currentMatchIndex>>
         /\ resultsEmitted' = FALSE

\* ------------------------------------------------------------ ScaleResolver
\* fractions <<numerator, denominator>>, denominator > 0
RatEq(a, b) == a[1] * b[2] = b[1] * a[2]

RatLeq(a, b) == a[1] * b[2] <= b[1] * a[2]

\* Math.max / Math.min on fractions
RatMax(a, b) == IF RatLeq(a, b) THEN b ELSE a

RECURSIVE Gcd(_, _)
Gcd(a, b) == IF b = 0 THEN a ELSE Gcd(b, a % b)

Abs(n) == IF n < 0 THEN -n ELSE n

\* the number n / d, in lowest terms
Fraction(n, d) == LET g == Gcd(Abs(n), d) IN <<n \div g, d \div g>>

\* prev + change for an integer change
RatPlus(prev, change) == Fraction(prev[1] + change * prev[2], prev[2])

FitWidthDirectFirstPage(pageToUse, dims, containerWidth) ==
  IF 1 \in DOMAIN dims /\ dims[1].width # 0 /\ containerWidth # 0
    THEN <<containerWidth, dims[1].width>>
    ELSE <<>>

\* The fit-width effect of PDFViewer, direct path: the scale it reports, or
\* <<>> when it arms the 100 ms retry.
FitWidthDirect(pageToUse, dims, containerWidth) ==
  IF pageToUse \in DOMAIN dims /\ dims[pageToUse].width # 0 /\ containerWidth # 0
    THEN IF containerWidth > 0 /\ dims[pageToUse].width > 0
           THEN <<containerWidth, dims[pageToUse].width>>
           ELSE <<1, 1>>
    ELSE <<>>

\* ... and the retry callback, which always reports a scale
FitWidthLater(pageToUse, dims, containerWidth) ==
  IF containerWidth # 0 /\ pageToUse \in DOMAIN dims /\ dims[pageToUse].width > 0
    THEN <<containerWidth, dims[pageToUse].width>>
    ELSE <<1, 1>>

\* calculationTargetDimensions?.width || pageContainerRef.current?.clientWidth
ContainerWidth(target, container) ==
  IF target # <<>> /\ target.width # 0 THEN target.width ELSE container.width

\* calculationTargetDimensions?.height || pageContainerSize.height
ContainerHeight(target, container) ==
  IF target # <<>> /\ target.height # 0 THEN target.height ELSE container.height

RatMin(a, b) == IF a[1] * b[2] <= b[1] * a[2] THEN a ELSE b

\* the dimensions the fit-page effect computes with are all present and positive
FitPageInputs(pageToUse, dims, targetWidth, targetHeight) ==
  /\ targetWidth # 0
  /\ targetHeight # 0
  /\ pageToUse \in DOMAIN dims
  /\ dims[pageToUse].width > 0
  /\ dims[pageToUse].height > 0

FitPageScaleByWidth(pageToUse, dims, targetWidth, targetHeight) ==
  <<targetWidth, dims[pageToUse].width>>

\* Math.min(scaleX, scaleY), replaced by 1 unless it is > 0.01
FitPageScale(pageToUse, dims, targetWidth, targetHeight) ==
  LET fitScale == RatMin(<<targetWidth, dims[pageToUse].width>>,
                         <<targetHeight, dims[pageToUse].height>>)
  IN  IF fitScale[1] * 100 > fitScale[2] THEN fitScale ELSE <<1, 1>>

\* The fit-page effect of PDFViewer, direct path: the scale it reports, or
\* <<>> when it arms the 150 ms retry.
FitPageDirect(pageToUse, dims, targetWidth, targetHeight) ==
  IF FitPageInputs(pageToUse, dims, targetWidth, targetHeight)
    THEN FitPageScale(pageToUse, dims, targetWidth, targetHeight)
    ELSE IF pageToUse \in DOMAIN dims THEN <<1, 1>> ELSE <<>>

\* ... and the retry callback, which always reports a scale
FitPageLater(pageToUse, dims, targetWidth, targetHeight) ==
  IF FitPageInputs(pageToUse, dims, targetWidth, targetHeight)
    THEN FitPageScale(pageToUse, dims, targetWidth, targetHeight)
    ELSE <<1, 1>>

ScaleReportedKeepsMode(scale, mode) ==
  /\ zoom' = Fraction(scale[1] * 100, scale[2])
  /\ viewMode' = mode
  /\ fitRetry' = 0
  /\ scaleEmitted' = scale
  /\ scaleEmittedBy' = mode
  /\ retryArmed' = FALSE

\* App.handleOptimalScaleCalculated(scale)
ScaleReported(scale, mode) ==
  /\ zoom' = Fraction(scale[1] * 100, scale[2])
  /\ viewMode' = "default"
  /\ fitRetry' = 0
  /\ scaleEmitted' = scale
  /\ scaleEmittedBy' = mode
  /\ retryArmed' = FALSE

\* the effect of the mode reports scale, or arms its retry when scale is <<>>
FitOutcome(scale, mode, pg) ==
  IF scale # <<>>
    THEN ScaleReported(scale, mode)
    ELSE /\ fitRetry' = pg
         /\ viewMode' = mode
         /\ scaleEmitted' = <<>>
         /\ scaleEmittedBy' = "default"
         /\ retryArmed' = TRUE
         /\ UNCHANGED zoom

\* The fit-width and fit-page effects after a render in which the view mode
\* is mode, the reference page pg, and depsChanged tells whether one of the
\* dependencies of the effect of that mode changed: [viewMode,
\* scrollToPageNumber, pageContainerSize.width (fit-width) or pageContainerSize
\* (fit-page), calculationTargetDimensions, file, numPages].
FitEffects(depsChanged, mode, pg, target, container) ==
  IF mode = "calculatingFitWidth" /\ depsChanged
    THEN FitOutcome(FitWidthDirect(pg, originalPageDimensionsRef,
                                   ContainerWidth(target, container)), mode, pg)
    ELSE IF mode = "calculatingFitPage" /\ depsChanged
    THEN FitOutcome(FitPageDirect(pg, originalPageDimensionsRef,
                                  ContainerWidth(target, container),
                                  ContainerHeight(target, container)), mode, pg)
    ELSE /\ viewMode' = mode
         /\ fitRetry' = (IF mode = "default" THEN 0 ELSE fitRetry)
         /\ scaleEmitted' = <<>>
         /\ scaleEmittedBy' = "default"
         /\ retryArmed' = FALSE
         /\ UNCHANGED zoom

\* ------------------------------------------------------- ScrollCoordinator
ValidPageNoFloor(newPage, total) == Min(newPage, IF total = 0 THEN 1 ELSE total)

\* App.handlePageChange: Math.max(1, Math.min(newPage, totalPages || 1))
ValidPage(newPage, total) == Max(1, Min(newPage, IF total = 0 THEN 1 ELSE total))

\* PDFViewer effect on [goToPageNumber]: the scroll it performs (0 = none).
\* It runs only when the prop changed.
GoToScrollNoGuards(prevGoTo, goTo, last, refs) ==
  IF goTo # 0 /\ goTo \in refs THEN goTo ELSE 0

GoToScrollIgnoresLast(prevGoTo, goTo, last, refs) ==
  IF goTo # prevGoTo /\ goTo # 0 /\ goTo \in refs THEN goTo ELSE 0

GoToScrollNoElement(prevGoTo, goTo, last, refs) ==
  IF goTo # prevGoTo /\ goTo # 0 /\ goTo # last THEN goTo ELSE 0

GoToScroll(prevGoTo, goTo, last, refs) ==
  IF goTo # prevGoTo /\ goTo # 0 /\ goTo # last /\ goTo \in refs THEN goTo ELSE 0

GoToLastSticky(prevGoTo, goTo, last, refs) ==
  IF goTo = prevGoTo THEN last
  ELSE IF goTo # 0 /\ goTo # last /\ goTo \in refs THEN goTo
  ELSE last

\* ... and the value it leaves in lastProgrammaticScrollToPageRef
GoToLast(prevGoTo, goTo, last, refs) ==
  IF goTo = prevGoTo THEN last
  ELSE IF goTo # 0 /\ goTo # last /\ goTo \in refs THEN goTo
  ELSE IF goTo = 0 THEN 0
  ELSE last

\* handleIntersect: the pages the batch admits
Admitted(entries, n) ==
  UNION { Neighborhood(entries[k].pageNumber, n) :
            k \in { j \in DOMAIN entries : entries[j].isIntersecting } }

\* the debounced callback: the intersecting entry with the smallest top, the
\* first one on a tie (strict <), 0 = none
RECURSIVE TopVisible(_, _, _)
TopVisible(entries, k, best) ==
  IF k > Len(entries) THEN best
  ELSE LET e == entries[k]
       IN  IF e.isIntersecting /\ e.pageNumber > 0
              /\ (best = <<>> \/ e.top < best[1].top)
             THEN TopVisible(entries, k + 1, <<e>>)
             ELSE TopVisible(entries, k + 1, best)

TopVisiblePageAny(entries) ==
  IF entries = <<>> THEN 0
  ELSE entries[CHOOSE k \in 1..Len(entries) :
                 \A j \in 1..Len(entries) :
                   \/ entries[k].top < entries[j].top
                   \/ entries[k].top = entries[j].top /\ k <= j].pageNumber

TopVisiblePageFirst(entries) ==
  LET seen == { k \in 1..Len(entries) :
                  entries[k].isIntersecting /\ entries[k].pageNumber > 0 }
  IN  IF seen = {} THEN 0
      ELSE entries[CHOOSE k \in seen : \A j \in seen : k <= j].pageNumber

\* the timeout callback of handleIntersect: the page it reports, 0 = none
TopVisiblePage(entries) ==
  LET best == TopVisible(entries, 1, <<>>)
  IN  IF best = <<>> THEN 0 ELSE best[1].pageNumber

Tops == {0, 100}

Entries(pages) ==
  [pageNumber : pages, isIntersecting : {TRUE}, top : Tops]
    \cup [pageNumber : pages, isIntersecting : {FALSE}, top : {0}]

\* One observer callback delivers one entry, or the entries of two adjacent
\* pages in document order, at least one of them intersecting.
Batches(pages) ==
  { <<e>> : e \in { f \in Entries(pages) : f.top = 0 } }
    \cup { b \in Entries(pages) \X Entries(pages) :
             /\ b[2].pageNumber = b[1].pageNumber + 1
             /\ b[1].isIntersecting \/ b[2].isIntersecting
             /\ ~b[1].isIntersecting => b[2].top # 0
             /\ ~b[2].isIntersecting => b[1].top # 0 }

\* navLog keeps the latest two explicit requests that no user or document
\* event separates; a timer that fires after a request marks it.
TimerAfter(log) ==
  IF log = <<>> THEN log
  ELSE [log EXCEPT ![Len(log)].timerAfter = TRUE]

\* ---------------------------------------------------------------- actions
\* handleOpenFile, a file was chosen and read: setPdfFile(blob), setPage(1),
\* then the effects on [file] of PDFViewer.
\* a step that changes no dependency of the search effect
NoSearch ==
  /\ resultsEmitted' = FALSE
  /\ UNCHANGED <<searchQuery, searchMatches, currentMatchIndex, searchTriggerCounter,
                 showSearchInput, searchSession>>

\* a step that changes no dependency of the fit effects
NoFit == FitEffects(FALSE, viewMode, page, calculationTargetDimensions, pageContainerSize)

OpenFile(k) ==
  /\ pdfFile' = 1
  /\ docKind' = k
  /\ page' = 1
  /\ renderedPages' = {}
  /\ observedRendered' = {}
  /\ renderPending' = FALSE
  /\ visiblePageTimeout' = NoTimeout
  /\ loading' = ~loadError
  /\ scrollEmitted' = 0
  /\ navLog' = <<>>
  /\ NoSearch
  /\ FitEffects(TRUE, viewMode, 1, calculationTargetDimensions, pageContainerSize)
  /\ UNCHANGED <<totalPages, goToPageNumber, goToResetTimer, numPages, loadError,
                 lastProgrammaticScrollToPageRef, calculationTargetDimensions,
                 pageContainerSize, pageDataVars, screenVars>>
  /\ UNCHANGED scrollVars

PageAfterLoadKept(pg) == pg

\* App.handlePdfLoaded: setPage(1)
PageAfterLoad(pg) == 1

\* onDocumentLoadSuccess, then App.handlePdfLoaded
LoadSuccess ==
  /\ loading
  /\ ~Corrupt(docKind)
  /\ LET n == PagesOf(docKind)
     IN  /\ numPages' = n
         /\ renderedPages' = InitialPages(n, page)
         /\ observedRendered' = InitialPages(n, page)
         /\ totalPages' = n
  /\ loadError' = FALSE
  /\ renderPending' = FALSE
  /\ visiblePageTimeout' = NoTimeout
  /\ page' = PageAfterLoad(page)
  /\ loading' = FALSE
  /\ scrollEmitted' = 0
  /\ navLog' = <<>>
  /\ UNCHANGED <<searchQuery, searchTriggerCounter, showSearchInput, searchSession>>
  /\ SearchEffect(PagesOf(docKind) # numPages, searchTriggerCounter, searchQuery,
                  PagesOf(docKind), textItemsByPage)
  /\ FitEffects(PagesOf(docKind) # numPages \/ PageAfterLoad(page) # page, viewMode,
                PageAfterLoad(page), calculationTargetDimensions, pageContainerSize)
  /\ UNCHANGED <<pdfFile, docKind, goToPageNumber, goToResetTimer,
                 lastProgrammaticScrollToPageRef, calculationTargetDimensions,
                 pageContainerSize, pageDataVars, screenVars>>
  /\ UNCHANGED scrollVars

\* onDocumentLoadError
LoadError ==
  /\ loading
  /\ Corrupt(docKind)
  /\ loadError' = TRUE
  /\ renderedPages' = {}
  /\ observedRendered' = {}
  /\ renderPending' = FALSE
  /\ visiblePageTimeout' = NoTimeout
  /\ loading' = FALSE
  /\ scrollEmitted' = 0
  /\ navLog' = <<>>
  /\ NoSearch
  /\ NoFit
  /\ UNCHANGED <<pdfFile, docKind, page, totalPages, goToPageNumber,
                 goToResetTimer, numPages, lastProgrammaticScrollToPageRef,
                 calculationTargetDimensions, pageContainerSize, pageDataVars, screenVars>>
  /\ UNCHANGED scrollVars

\* handleIntersect(entries), called by the live observer
HandleIntersect(entries) ==
  /\ pdfFile # 0 /\ ~loadError /\ numPages > 0
  /\ LET currentRendered == observedRendered \cup Admitted(entries, numPages)
         newPagesToRenderFound == currentRendered # observedRendered
     IN  /\ renderedPages' = IF newPagesToRenderFound THEN currentRendered
                                                      ELSE renderedPages
         /\ renderPending' = (renderPending \/ newPagesToRenderFound)
  /\ visiblePageTimeout' = entries
  /\ scrollEmitted' = 0
  /\ navLog' = <<>>
  /\ NoSearch
  /\ NoFit
  /\ UNCHANGED <<pdfFile, docKind, page, totalPages, goToPageNumber,
                 goToResetTimer, numPages, loadError, observedRendered,
                 lastProgrammaticScrollToPageRef, loading,
                 calculationTargetDimensions, pageContainerSize, pageDataVars, screenVars>>
  /\ UNCHANGED scrollVars

\* React commits the pending setRenderedPages: the observer effect is cleaned
\* up (clearTimeout, disconnect) and run again with the new renderedPages.
Commit ==
  /\ renderPending
  /\ renderPending' = FALSE
  /\ observedRendered' = renderedPages
  /\ visiblePageTimeout' = NoTimeout
  /\ scrollEmitted' = 0
  /\ NoSearch
  /\ NoFit
  /\ UNCHANGED <<pdfFile, docKind, page, totalPages, goToPageNumber,
                 goToResetTimer, numPages, loadError, renderedPages,
                 lastProgrammaticScrollToPageRef, loading,
                 calculationTargetDimensions, pageContainerSize, pageDataVars, screenVars>>
  /\ navLog' = TimerAfter(navLog)
  /\ UNCHANGED scrollVars

GoToTargetAlways(changed, explicitGoTo, validPage, prevGoTo) ==
  IF changed THEN validPage ELSE prevGoTo

\* App.handlePageChange: setGoToPageNumber(validPage) only for an explicit
\* change of the page
GoToTarget(changed, explicitGoTo, validPage, prevGoTo) ==
  IF changed /\ explicitGoTo THEN validPage ELSE prevGoTo

\* App.handlePageChange(newPage, explicitGoTo) with the render and the effects
\* on [goToPageNumber] and on [scrollToPageNumber] that follow it
PageChange(newPage, explicitGoTo) ==
  LET validPage == ValidPage(newPage, totalPages)
      changed == validPage # page
      goTo == GoToTarget(changed, explicitGoTo, validPage, goToPageNumber)
      scroll == GoToScroll(goToPageNumber, goTo, lastProgrammaticScrollToPageRef, PageRefs)
  IN  /\ page' = validPage
      /\ goToPageNumber' = goTo
      /\ goToResetTimer' = IF goTo # goToPageNumber THEN TRUE ELSE goToResetTimer
      /\ scrollEmitted' = scroll
      /\ lastProgrammaticScrollToPageRef' =
           GoToLast(goToPageNumber, goTo, lastProgrammaticScrollToPageRef, PageRefs)
      /\ NoSearch
      /\ FitEffects(pdfFile # 0 /\ changed, viewMode, validPage,
                    calculationTargetDimensions, pageContainerSize)
      /\ UNCHANGED <<pdfFile, docKind, totalPages, numPages, loadError,
                     renderedPages, observedRendered, renderPending, loading,
                     calculationTargetDimensions, pageContainerSize, pageDataVars, screenVars>>

\* Previous / Next button, page input, thumbnail: handlePageChange(n, true)
GoToPage(n) ==
  /\ PageChange(n, TRUE)
  /\ navLog' = (IF Len(navLog) = 2 THEN Tail(navLog) ELSE navLog)
                 \o <<[target |-> n, scrolled |-> scrollEmitted' # 0,
                       timerAfter |-> FALSE]>>
  /\ UNCHANGED visiblePageTimeout
  /\ UNCHANGED scrollVars

\* ArrowLeft / ArrowRight: handlePageChange(page -+ 1)
ArrowKey(d) ==
  /\ PageChange(page + d, FALSE)
  /\ navLog' = <<>>
  /\ UNCHANGED visiblePageTimeout
  /\ UNCHANGED scrollVars

\* the 200 ms timeout of handleIntersect fires
VisiblePageTimeoutFires ==
  /\ visiblePageTimeout # NoTimeout
  /\ ~renderPending
  /\ LET p == TopVisiblePage(visiblePageTimeout)
     IN  IF p # 0 THEN PageChange(p, FALSE)
         ELSE /\ scrollEmitted' = 0
              /\ NoSearch
              /\ NoFit
              /\ UNCHANGED <<pdfFile, docKind, page, totalPages, goToPageNumber,
                             goToResetTimer, numPages, loadError, renderedPages,
                             observedRendered, renderPending,
                             lastProgrammaticScrollToPageRef, loading,
                             calculationTargetDimensions, pageContainerSize,
                             pageDataVars, screenVars>>
  /\ visiblePageTimeout' = NoTimeout
  /\ navLog' = TimerAfter(navLog)
  /\ UNCHANGED scrollVars

\* the 300 ms timeout of the App effect on [goToPageNumber] fires:
\* setGoToPageNumber(undefined), then the PDFViewer effect resets its ref
GoToResetFires ==
  /\ goToResetTimer
  /\ goToResetTimer' = FALSE
  /\ goToPageNumber' = 0
  /\ lastProgrammaticScrollToPageRef' =
       GoToLast(goToPageNumber, 0, lastProgrammaticScrollToPageRef, PageRefs)
  /\ scrollEmitted' = 0
  /\ NoSearch
  /\ NoFit
  /\ UNCHANGED <<pdfFile, docKind, page, totalPages, numPages, loadError,
                 renderedPages, observedRendered, renderPending,
                 visiblePageTimeout, loading, calculationTargetDimensions,
                 pageContainerSize, pageDataVars, screenVars>>
  /\ navLog' = TimerAfter(navLog)
  /\ UNCHANGED scrollVars

\* the state of App and PDFViewer that the page, search and fit steps below
\* leave alone
navVars == <<pdfFile, page, totalPages, goToPageNumber, goToResetTimer, numPages,
             loadError, renderedPages, observedRendered, renderPending,
             lastProgrammaticScrollToPageRef, visiblePageTimeout, docKind,
             loading, navLog>>

\* ----------------------------------------------------------- TextRenderer
TextRendererAllCurrent(pageNumber, itemIndex, query, matches, current) ==
  IF query = <<>> \/ matches = <<>> THEN ""
  ELSE LET relevantMatches ==
             { k \in 1..Len(matches) : /\ matches[k].pageIndex = pageNumber - 1
                                       /\ matches[k].itemIndex = itemIndex }
       IN  IF relevantMatches = {} THEN ""
           ELSE IF current >= 0 THEN "::highlightCurrent"
           ELSE "::highlight"

\* createTextRenderer(pageNumber) applied to the text run itemIndex: the
\* marker suffix it appends, "" when it returns str as it is. Matches are
\* compared by identity, that is by their position in searchMatches.
TextRenderer(pageNumber, itemIndex, query, matches, current) ==
  IF query = <<>> \/ matches = <<>> THEN ""
  ELSE LET relevantMatches ==
             { k \in 1..Len(matches) : /\ matches[k].pageIndex = pageNumber - 1
                                       /\ matches[k].itemIndex = itemIndex }
           isCurrentMatch == current + 1 \in relevantMatches
       IN  IF relevantMatches = {} THEN ""
           ELSE IF isCurrentMatch THEN "::highlightCurrent"
           ELSE "::highlight"

\* -------------------------------------------------------------- UserScroll
\* window.setTimeout returns an id that no pending timeout has
NewTimerId(ref) == IF ref = 1 THEN 2 ELSE 1

ScrollTimersKept(ref, timers, id) == timers \cup {id}

\* handleUserScroll: clearTimeout(userScrollTimeoutRef.current), then the
\* new 300 ms timeout
ScrollTimersAfter(ref, timers, id) == (timers \ {ref}) \cup {id}

\* handleUserScroll, the onScroll handler of the viewer's scroll container
UserScroll ==
  /\ pdfFile # 0
  /\ userHadRecentScroll' = TRUE
  /\ userScrollTimeoutRef' = NewTimerId(userScrollTimeoutRef)
  /\ userScrollTimers' = ScrollTimersAfter(userScrollTimeoutRef, userScrollTimers,
                                           NewTimerId(userScrollTimeoutRef))
  /\ scrollEmitted' = 0
  /\ navLog' = <<>>
  /\ NoSearch
  /\ NoFit
  /\ UNCHANGED <<pdfFile, page, totalPages, goToPageNumber, goToResetTimer,
                 numPages, loadError, renderedPages, observedRendered,
                 renderPending, lastProgrammaticScrollToPageRef,
                 visiblePageTimeout, docKind, loading,
                 calculationTargetDimensions, pageContainerSize, pageDataVars,
                 screenVars>>

\* the 300 ms timeout of handleUserScroll with the given id fires
UserScrollTimeoutFires(id) ==
  /\ id \in userScrollTimers
  /\ userScrollTimers' = userScrollTimers \ {id}
  /\ userHadRecentScroll' = FALSE
  /\ UNCHANGED userScrollTimeoutRef
  /\ scrollEmitted' = 0
  /\ navLog' = TimerAfter(navLog)
  /\ NoSearch
  /\ NoFit
  /\ UNCHANGED <<pdfFile, page, totalPages, goToPageNumber, goToResetTimer,
                 numPages, loadError, renderedPages, observedRendered,
                 renderPending, lastProgrammaticScrollToPageRef,
                 visiblePageTimeout, docKind, loading,
                 calculationTargetDimensions, pageContainerSize, pageDataVars,
                 screenVars>>

\* singlePageView={isFullScreen || viewMode === 'calculatingFitPage'}
SinglePageView == isFullScreen \/ viewMode = "calculatingFitPage"

\* <Page onLoadSuccess> of a rendered page: records the page's intrinsic size
\* and starts getTextContent()
PageLoaded(p) ==
  /\ DocumentShown
  /\ IF SinglePageView THEN p = page ELSE p \in renderedPages \cap (1..numPages)
  /\ originalPageDimensionsRef' = Put(originalPageDimensionsRef, p, GeomOf(docKind, p))
  /\ pendingText' = pendingText \cup {[pageNumber |-> p, kind |-> docKind]}
  /\ scrollEmitted' = 0
  /\ NoSearch
  /\ NoFit
  /\ UNCHANGED <<navVars, screenVars, textItemsByPage, calculationTargetDimensions,
                 pageContainerSize>>
  /\ UNCHANGED scrollVars

\* getTextContent().then(...): setTextItemsByPage, then the search effect
TextResolved(t) ==
  /\ t \in pendingText
  /\ pendingText' = pendingText \ {t}
  /\ textItemsByPage' = Put(textItemsByPage, t.pageNumber, TextOf(t.kind, t.pageNumber))
  /\ UNCHANGED <<searchQuery, searchTriggerCounter, showSearchInput, searchSession>>
  /\ SearchEffect(TRUE, searchTriggerCounter, searchQuery, numPages, textItemsByPage')
  /\ scrollEmitted' = 0
  /\ NoFit
  /\ UNCHANGED <<navVars, screenVars, originalPageDimensionsRef, calculationTargetDimensions,
                 pageContainerSize>>
  /\ UNCHANGED scrollVars

\* The search controls exist while showSearchInput is set.
\* App.handleSearchQueryChange, then the search effect
SearchQueryChange(value) ==
  /\ showSearchInput
  /\ searchQuery' = value
  /\ UNCHANGED <<searchTriggerCounter, showSearchInput, searchSession>>
  /\ IF value = <<>>
       THEN /\ searchMatches' = <<>>
            /\ currentMatchIndex' = -1
            /\ resultsEmitted' = FALSE
       ELSE SearchEffect(value # searchQuery, searchTriggerCounter, value, numPages,
                         textItemsByPage)
  /\ scrollEmitted' = 0
  /\ NoFit
  /\ UNCHANGED <<navVars, screenVars, pageDataVars, calculationTargetDimensions,
                 pageContainerSize>>
  /\ UNCHANGED scrollVars

\* App.handleSearchSubmit, then the search effect
SearchSubmit ==
  /\ showSearchInput
  /\ NotBlank(searchQuery) => searchTriggerCounter < MaxSubmits
  /\ UNCHANGED <<searchQuery, showSearchInput>>
  /\ IF ~NotBlank(searchQuery)
       THEN /\ searchMatches' = <<>>
            /\ currentMatchIndex' = -1
            /\ resultsEmitted' = FALSE
            /\ UNCHANGED <<searchTriggerCounter, searchSession>>
       ELSE /\ searchTriggerCounter' = searchTriggerCounter + 1
            /\ searchSession' = "submitted"
            /\ SearchEffect(TRUE, searchTriggerCounter + 1, searchQuery, numPages,
                            textItemsByPage)
  /\ scrollEmitted' = 0
  /\ NoFit
  /\ UNCHANGED <<navVars, screenVars, pageDataVars, calculationTargetDimensions,
                 pageContainerSize>>
  /\ UNCHANGED scrollVars

\* a step of the search controls that changes no dependency of the search
\* effect and nothing outside the search state
SearchStep ==
  /\ resultsEmitted' = FALSE
  /\ scrollEmitted' = 0
  /\ NoFit
  /\ UNCHANGED <<navVars, screenVars, pageDataVars, calculationTargetDimensions,
                 pageContainerSize>>

\* the remainder operator %, whose result has the sign of the dividend
Rem(a, n) == IF a >= 0 THEN a % n ELSE -((-a) % n)

NextIndexNoWrap(prev, n) == prev + 1

\* (prev + 1) % searchMatches.length
NextIndex(prev, n) == Rem(prev + 1, n)

PreviousIndexNoWrap(prev, n) == prev - 1

\* (prev - 1 + searchMatches.length) % searchMatches.length
PreviousIndex(prev, n) == Rem(prev - 1 + n, n)

\* App.handleNextMatch
NextMatch ==
  /\ showSearchInput
  /\ currentMatchIndex' = (IF Len(searchMatches) > 0
                             THEN NextIndex(currentMatchIndex, Len(searchMatches))
                             ELSE currentMatchIndex)
  /\ UNCHANGED <<searchQuery, searchMatches, searchTriggerCounter, showSearchInput,
                 searchSession>>
  /\ SearchStep
  /\ UNCHANGED scrollVars

\* App.handlePreviousMatch
PreviousMatch ==
  /\ showSearchInput
  /\ currentMatchIndex' = (IF Len(searchMatches) > 0
                             THEN PreviousIndex(currentMatchIndex, Len(searchMatches))
                             ELSE currentMatchIndex)
  /\ UNCHANGED <<searchQuery, searchMatches, searchTriggerCounter, showSearchInput,
                 searchSession>>
  /\ SearchStep
  /\ UNCHANGED scrollVars

\* App.toggleSearchInput: closing the input clears the search state. The
\* search effect runs on the new query and trigger, which are '' and 0.
ToggleSearchInput ==
  /\ showSearchInput' = ~showSearchInput
  /\ IF showSearchInput
       THEN /\ searchQuery' = <<>>
            /\ searchMatches' = <<>>
            /\ currentMatchIndex' = -1
            /\ searchTriggerCounter' = 0
            /\ searchSession' = "closed"
       ELSE UNCHANGED <<searchQuery, searchMatches, currentMatchIndex,
                        searchTriggerCounter, searchSession>>
  /\ SearchStep
  /\ UNCHANGED scrollVars

\* App.handleFitWidthClick, then the fit-width effect
FitWidthClick ==
  /\ calculationTargetDimensions' = <<>>
  /\ FitEffects(pdfFile # 0 /\ (viewMode # "calculatingFitWidth"
                                   \/ calculationTargetDimensions # <<>>),
                "calculatingFitWidth", page, <<>>, pageContainerSize)
  /\ scrollEmitted' = 0
  /\ NoSearch
  /\ UNCHANGED <<navVars, screenVars, pageDataVars, pageContainerSize>>
  /\ UNCHANGED scrollVars

\* App.handleFitPageClick, then the fit-page effect
FitPageClick ==
  /\ calculationTargetDimensions' = <<>>
  /\ FitEffects(pdfFile # 0 /\ (viewMode # "calculatingFitPage"
                                   \/ calculationTargetDimensions # <<>>),
                "calculatingFitPage", page, <<>>, pageContainerSize)
  /\ scrollEmitted' = 0
  /\ NoSearch
  /\ UNCHANGED <<navVars, screenVars, pageDataVars, pageContainerSize>>
  /\ UNCHANGED scrollVars

\* fullscreenchange on entering fullscreen: setIsFullScreen(true) and a
\* requestAnimationFrame
EnterFullScreen ==
  /\ ~isFullScreen
  /\ isFullScreen' = TRUE
  /\ fullScreenFrame' = TRUE
  /\ scrollEmitted' = 0
  /\ NoSearch
  /\ NoFit
  /\ UNCHANGED <<navVars, pageDataVars, calculationTargetDimensions,
                 pageContainerSize>>
  /\ UNCHANGED scrollVars

\* the requestAnimationFrame callback: the viewer container's size becomes
\* the target of a fit-page computation
FullScreenFrame(target) ==
  /\ fullScreenFrame
  /\ fullScreenFrame' = FALSE
  /\ calculationTargetDimensions' = target
  /\ FitEffects(pdfFile # 0, "calculatingFitPage", page, target, pageContainerSize)
  /\ scrollEmitted' = 0
  /\ NoSearch
  /\ UNCHANGED <<navVars, isFullScreen, pageDataVars, pageContainerSize>>
  /\ UNCHANGED scrollVars

\* fullscreenchange on leaving fullscreen
ExitFullScreen ==
  /\ isFullScreen
  /\ isFullScreen' = FALSE
  /\ calculationTargetDimensions' = <<>>
  /\ FitEffects(pdfFile # 0 /\ (viewMode # "calculatingFitWidth"
                                   \/ calculationTargetDimensions # <<>>),
                "calculatingFitWidth", page, <<>>, pageContainerSize)
  /\ scrollEmitted' = 0
  /\ NoSearch
  /\ UNCHANGED <<navVars, fullScreenFrame, pageDataVars, pageContainerSize>>
  /\ UNCHANGED scrollVars

\* Zoom Out button: Math.max(25, prev - 25)
ZoomedOut(prev) == RatMax(<<25, 1>>, RatPlus(prev, -25))

\* Zoom In button: Math.min(400, prev + 25)
ZoomedIn(prev) == RatMin(<<400, 1>>, RatPlus(prev, 25))

WheelZoomedNoFloor(prevZoom, zoomChange) ==
  RatMin(RatPlus(prevZoom, zoomChange), <<400, 1>>)

\* handleWheelZoom: Math.max(10, Math.min(prevZoom + zoomChange, 400))
WheelZoomed(prevZoom, zoomChange) ==
  RatMax(<<10, 1>>, RatMin(RatPlus(prevZoom, zoomChange), <<400, 1>>))

\* a step of the zoom controls, which leaves the view mode alone
ZoomSet(newZoom) ==
  /\ zoom' = newZoom
  /\ UNCHANGED <<viewMode, fitRetry>>
  /\ scaleEmitted' = <<>>
  /\ scaleEmittedBy' = "default"
  /\ retryArmed' = FALSE
  /\ scrollEmitted' = 0
  /\ NoSearch
  /\ UNCHANGED <<navVars, screenVars, pageDataVars, calculationTargetDimensions,
                 pageContainerSize>>
  /\ UNCHANGED scrollVars

ZoomOut == ZoomSet(ZoomedOut(zoom))

ZoomIn == ZoomSet(ZoomedIn(zoom))

\* applyZoomInput with zoomInput parsed to newZoomValue; <<>> is NaN
ApplyZoomInput(newZoomValue) ==
  ZoomSet(IF /\ newZoomValue # <<>>
             /\ RatLeq(<<25, 1>>, newZoomValue)
             /\ RatLeq(newZoomValue, <<400, 1>>)
            THEN newZoomValue
            ELSE zoom)

\* handleWheelZoom with ctrl or meta held: the zoom changes by -deltaY and a
\* calculating view mode is left, which cancels a pending fit retry
WheelZoom(deltaY) ==
  /\ zoom' = WheelZoomed(zoom, -deltaY)
  /\ viewMode' = "default"
  /\ fitRetry' = 0
  /\ scaleEmitted' = <<>>
  /\ scaleEmittedBy' = "default"
  /\ retryArmed' = FALSE
  /\ scrollEmitted' = 0
  /\ NoSearch
  /\ UNCHANGED <<navVars, screenVars, pageDataVars, calculationTargetDimensions,
                 pageContainerSize>>
  /\ UNCHANGED scrollVars

\* the page container is resized: the ResizeObserver callback stores the new
\* size, then the fit-width effect runs on [pageContainerSize.width]
Resize(size) ==
  /\ pdfFile # 0
  /\ size # pageContainerSize
  /\ pageContainerSize' = size
  /\ FitEffects(viewMode = "calculatingFitPage" \/ size.width # pageContainerSize.width,
                viewMode, page, calculationTargetDimensions, size)
  /\ scrollEmitted' = 0
  /\ NoSearch
  /\ UNCHANGED <<navVars, screenVars, pageDataVars, calculationTargetDimensions>>
  /\ UNCHANGED scrollVars

\* the 100 ms retry timeout of the fit-width effect fires
FitRetryFires ==
  /\ fitRetry # 0
  /\ ScaleReported(IF viewMode = "calculatingFitWidth"
                     THEN FitWidthLater(fitRetry, originalPageDimensionsRef,
                                        ContainerWidth(calculationTargetDimensions,
                                                       pageContainerSize))
                     ELSE FitPageLater(fitRetry, originalPageDimensionsRef,
                                       ContainerWidth(calculationTargetDimensions,
                                                      pageContainerSize),
                                       ContainerHeight(calculationTargetDimensions,
                                                       pageContainerSize)),
                   viewMode)
  /\ scrollEmitted' = 0
  /\ NoSearch
  /\ UNCHANGED <<navVars, screenVars, pageDataVars, calculationTargetDimensions,
                 pageContainerSize>>
  /\ UNCHANGED scrollVars

\* --------------------------------------------------------- specifications
MountedPages == 1..numPages

\* Navigation: explicit and non-explicit page changes over short documents
NavKinds == {MidDoc, ShortDoc, BadDoc}

NavNext ==
  \/ \E k \in NavKinds : OpenFile(k)
  \/ LoadSuccess
  \/ LoadError
  \/ \E n \in 0..4 : GoToPage(n)
  \/ \E d \in {-1, 1} : ArrowKey(d)
  \/ \E e \in { f \in Entries(MountedPages) : f.top = 0 } : HandleIntersect(<<e>>)
  \/ Commit
  \/ VisiblePageTimeoutFires
  \/ GoToResetFires

Spec == Init /\ [][NavNext]_vars

\* Jumps: explicit requests for near and far pages of a long document
JumpKinds == {LongDoc}

JumpTargets == {2, MaxPages - 1, MaxPages}

JumpNext ==
  \/ \E k \in JumpKinds : OpenFile(k)
  \/ LoadSuccess
  \/ \E n \in JumpTargets : GoToPage(n)
  \/ \E e \in { f \in Entries(MountedPages) : f.top = 0 } : HandleIntersect(<<e>>)
  \/ Commit
  \/ VisiblePageTimeoutFires
  \/ GoToResetFires

SpecJump == Init /\ [][JumpNext]_vars

\* Reset: explicit requests, arrow keys and the 300 ms reset timeout on one
\* document. A timeout that was started fires unless it is cleared, and the
\* reset timeout is cleared (and started again) when goToPageNumber changes.
ResetKinds == {MidDoc}

ResetNext ==
  \/ \E k \in ResetKinds : OpenFile(k)
  \/ LoadSuccess
  \/ \E n \in 1..PagesOf(MidDoc) : GoToPage(n)
  \/ \E d \in {-1, 1} : ArrowKey(d)
  \/ \E e \in { f \in Entries(MountedPages) : f.top = 0 } : HandleIntersect(<<e>>)
  \/ VisiblePageTimeoutFires
  \/ GoToResetFires

SpecReset ==
  /\ Init
  /\ [][ResetNext]_vars
  /\ \A g \in 1..PagesOf(MidDoc) : WF_vars(GoToResetFires /\ goToPageNumber = g)

\* Render window: visibility batches over a long document
RenderKinds == {LongDoc, ShortDoc, BadDoc}

RenderNext ==
  \/ \E k \in RenderKinds : OpenFile(k)
  \/ LoadSuccess
  \/ LoadError
  \/ \E d \in {-1, 1} : ArrowKey(d)
  \/ \E b \in Batches(MountedPages) : HandleIntersect(b)
  \/ Commit
  \/ VisiblePageTimeoutFires

SpecRender == Init /\ [][RenderNext]_vars

\* Scrolling by hand between explicit requests: the onScroll handler and its
\* quiet timeout, which the event loop runs once its delay has passed.
QuietKinds == {MidDoc}

TimerIds == {1, 2}

QuietNext ==
  \/ \E k \in QuietKinds : OpenFile(k)
  \/ LoadSuccess
  \/ \E n \in 1..PagesOf(MidDoc) : GoToPage(n)
  \/ GoToResetFires
  \/ UserScroll
  \/ \E id \in TimerIds : UserScrollTimeoutFires(id)

SpecQuiet ==
  /\ Init
  /\ [][QuietNext]_vars
  /\ \A id \in TimerIds : WF_vars(UserScrollTimeoutFires(id))

\* Searching: documents with text, page loads, the search box.
SearchKinds == {MidDoc, ShortDoc, BadDoc}

Queries == {<<>>, <<" ">>, <<"A", "t">>}

SearchNext ==
  \/ \E k \in SearchKinds : OpenFile(k)
  \/ LoadSuccess
  \/ LoadError
  \/ \E p \in MountedPages : PageLoaded(p)
  \/ \E t \in pendingText : TextResolved(t)
  \/ \E value \in Queries : SearchQueryChange(value)
  \/ SearchSubmit
  \/ ToggleSearchInput

SpecSearch == Init /\ [][SearchNext]_vars

\* Scanning: the search effect on a loaded two-page document whose text is
\* drawn from all short runs, for all short queries.
ScanChars == {"a", "A", "Idot"}

Strings(maxLen) == UNION {[1..n -> ScanChars] : n \in 0..maxLen}

ExampleRun == <<"c", "o", "n", "c", "a", "t", "e", "n", "a", "t", "e", " ",
                "c", "a", "t", "s">>

ScanRuns == Strings(MaxRun)

ScanQueries == Strings(2) \cup {<<" ">>, <<"c", "a", "t">>, <<"C", "a", "T">>}

\* the document is loaded, both pages are rendered and their text has arrived
InitScan ==
  /\ pdfFile = 1
  /\ docKind = AnyDoc
  /\ loading = FALSE
  /\ loadError = FALSE
  /\ numPages = PagesOf(AnyDoc)
  /\ totalPages = PagesOf(AnyDoc)
  /\ page = 1
  /\ goToPageNumber = 0
  /\ goToResetTimer = FALSE
  /\ renderedPages = InitialPages(PagesOf(AnyDoc), 1)
  /\ observedRendered = InitialPages(PagesOf(AnyDoc), 1)
  /\ renderPending = FALSE
  /\ lastProgrammaticScrollToPageRef = 0
  /\ visiblePageTimeout = NoTimeout
  /\ scrollEmitted = 0
  /\ navLog = <<>>
  /\ searchQuery = <<>>
  /\ searchMatches = <<>>
  /\ currentMatchIndex = -1
  /\ searchTriggerCounter = 0
  /\ showSearchInput = TRUE
  /\ searchSession = "none"
  /\ resultsEmitted = FALSE
  /\ \E run \in ScanRuns :
       textItemsByPage = [p \in 1..PagesOf(AnyDoc) |->
                            IF p = 1 THEN <<run>> ELSE <<run, ExampleRun>>]
  /\ zoom = <<100, 1>>
  /\ viewMode = "default"
  /\ calculationTargetDimensions = <<>>
  /\ isFullScreen = FALSE
  /\ fullScreenFrame = FALSE
  /\ originalPageDimensionsRef = [p \in 1..PagesOf(AnyDoc) |-> GeomOf(AnyDoc, p)]
  /\ pageContainerSize = [width |-> 300, height |-> 500]
  /\ fitRetry = 0
  /\ pendingText = {}
  /\ scaleEmitted = <<>>
  /\ scaleEmittedBy = "default"
  /\ retryArmed = FALSE
  /\ userHadRecentScroll = FALSE
  /\ userScrollTimeoutRef = 0
  /\ userScrollTimers = {}

ScanNext ==
  \/ \E value \in ScanQueries : SearchQueryChange(value)
  \/ SearchSubmit
  \/ NextMatch
  \/ PreviousMatch

SpecScan == InitScan /\ [][ScanNext]_vars

\* A search session: the search box with all its controls while documents
\* are opened, load or fail, and their pages are indexed.
SessionKinds == {MidDoc, BadDoc}

SessionNext ==
  \/ \E k \in SessionKinds : OpenFile(k)
  \/ LoadSuccess
  \/ LoadError
  \/ \E p \in MountedPages : PageLoaded(p)
  \/ \E t \in pendingText : TextResolved(t)
  \/ \E value \in Queries : SearchQueryChange(value)
  \/ SearchSubmit
  \/ NextMatch
  \/ PreviousMatch
  \/ ToggleSearchInput

SpecSession == Init /\ [][SessionNext]_vars

\* The session with the loads brought to an end: react-pdf calls onLoadSuccess
\* or onLoadError once the load of a mounted Document has finished.
SpecRecover ==
  /\ Init
  /\ [][SessionNext]_vars
  /\ WF_vars(LoadSuccess)
  /\ WF_vars(LoadError)

\* Fitting: documents with different page sizes, the Fit Width button, resizes.
ScaleKinds == {MidDoc, ShortDoc, BadDoc}

ScaleNext ==
  \/ \E k \in ScaleKinds : OpenFile(k)
  \/ LoadSuccess
  \/ LoadError
  \/ \E p \in MountedPages : PageLoaded(p)
  \/ \E d \in {-1, 1} : ArrowKey(d)
  \/ FitWidthClick
  \/ \E size \in ContainerSizes : Resize(size)
  \/ FitRetryFires

SpecScale == Init /\ [][ScaleNext]_vars

\* Fit Page and fullscreen on one document whose pages differ in shape.
FitKinds == {MidDoc}

FitNext ==
  \/ \E k \in FitKinds : OpenFile(k)
  \/ LoadSuccess
  \/ \E p \in MountedPages : PageLoaded(p)
  \/ \E d \in {-1, 1} : ArrowKey(d)
  \/ FitPageClick
  \/ EnterFullScreen
  \/ \E target \in TargetSizes : FullScreenFrame(target)
  \/ ExitFullScreen
  \/ \E size \in ContainerSizes : Resize(size)
  \/ FitRetryFires

SpecFit == Init /\ [][FitNext]_vars

\* Zooming: the zoom controls and the wheel, with fit results on one document.
ZoomKinds == {ShortDoc}

\* parseFloat(zoomInput): not a number, below, within and above the range
ZoomInputs == {<<>>, <<24, 1>>, <<40, 1>>, <<401, 1>>}

\* event.deltaY of a wheel notch, either way
DeltaYs == {-100, 100}

ZoomNext ==
  \/ \E k \in ZoomKinds : OpenFile(k)
  \/ LoadSuccess
  \/ \E p \in MountedPages : PageLoaded(p)
  \/ FitWidthClick
  \/ FitPageClick
  \/ \E size \in ContainerSizes : Resize(size)
  \/ FitRetryFires
  \/ ZoomOut
  \/ ZoomIn
  \/ \E newZoomValue \in ZoomInputs : ApplyZoomInput(newZoomValue)
  \/ \E deltaY \in DeltaYs : WheelZoom(deltaY)

SpecZoom == Init /\ [][ZoomNext]_vars

\* ------------------------------------------------------------------ claims
Window(p) ==
  { i \in 1..numPages : p - PAGES_TO_PRELOAD_BUFFER <= i
                        /\ i <= p + PAGES_TO_PRELOAD_BUFFER }

\* C1: once handleIntersect has processed a batch (its entries are the ones
\* the pending timeout holds), renderedPages contains, for every intersecting
\* page p of the batch, every page of [p-3, p+3] within [1, numPages].
C1_VisibleWindowAdmitted ==
  \A k \in DOMAIN visiblePageTimeout :
    visiblePageTimeout[k].isIntersecting
      => Window(visiblePageTimeout[k].pageNumber) \subseteq renderedPages

\* a batch whose intersecting page lies in the interior of the long document
\* has been processed and has admitted pages the load had not
C1_Witness ==
  /\ numPages = MaxPages
  /\ visiblePageTimeout # NoTimeout
  /\ visiblePageTimeout[1].isIntersecting
  /\ visiblePageTimeout[1].pageNumber = PAGES_TO_PRELOAD_BUFFER + 2
  /\ renderPending
  /\ MaxPages \in renderedPages

\* C2 as stated: two consecutive goToPage(p, true) with nothing in between
\* emit exactly one scroll to p.
C2_ExactlyOneScroll ==
  (/\ Len(navLog) = 2
   /\ navLog[1].target = navLog[2].target
   /\ navLog[1].target \in PageRefs
   /\ ~navLog[1].timerAfter)
    => (navLog[1].scrolled # navLog[2].scrolled)

\* C2 as amended: the second of two consecutive goToPage(p, true) emits no
\* scroll, so the pair emits at most one scroll to p.
C2_SecondRequestSilent ==
  (/\ Len(navLog) = 2
   /\ navLog[1].target = navLog[2].target
   /\ navLog[1].target \in 1..totalPages
   /\ ~navLog[1].timerAfter)
    => (~navLog[2].scrolled /\ scrollEmitted = 0)

\* the pair has been made and its first request did scroll
C2_Witness ==
  /\ Len(navLog) = 2
  /\ navLog[1].target = navLog[2].target
  /\ ~navLog[1].timerAfter
  /\ navLog[1].scrolled
  /\ lastProgrammaticScrollToPageRef = navLog[1].target

Clamp(n, lo, hi) == IF n < lo THEN lo ELSE IF n > hi THEN hi ELSE n

Requests == 0..4

\* C3 as stated: goToPage(p), goToPage(q), goToPage(p) with p # q emit a
\* scroll to p at the first and at the third request, whatever timers fire
\* in between.
C3_TwoScrollsToP ==
  [][\A p \in PageRefs :
       (/\ Len(navLog) = 2
        /\ navLog[1].target = p
        /\ navLog[2].target \in PageRefs \ {p}
        /\ GoToPage(p))
         => (navLog[1].scrolled /\ scrollEmitted' = p)]_vars

\* C3 as amended: an explicit request emits a scroll to its clamped target
\* exactly when that page differs from the current page, from the pending
\* goToPageNumber and from the last recorded programmatic target, and its
\* page element exists; p, q, p therefore emits two scrolls to p when this
\* holds at the first and at the third request, and fewer otherwise.
C3_ScrollExactlyWhenNewTarget ==
  [][\A n \in Requests :
       GoToPage(n) =>
         LET v == Clamp(n, 1, totalPages)
             fires == /\ v # page
                      /\ v # goToPageNumber
                      /\ v # lastProgrammaticScrollToPageRef
                      /\ DocumentShown /\ v <= numPages
         IN  scrollEmitted' = (IF fires THEN v ELSE 0)]_vars

\* q then p were requested and both scrolled
C3_Witness ==
  /\ Len(navLog) = 2
  /\ navLog[1].target # navLog[2].target
  /\ navLog[1].scrolled /\ navLog[2].scrolled
  /\ navLog[1].timerAfter
  /\ scrollEmitted = navLog[2].target
  /\ lastProgrammaticScrollToPageRef = navLog[2].target

\* C4: goToPage(n, explicit) makes the clamped n the current page; it sets
\* the scroll target only when explicit and the clamped value differs from
\* the current page; when they are equal nothing changes.
C4_PageChangeClamped ==
  [][/\ \A n \in Requests :
          GoToPage(n) =>
            LET v == Clamp(n, 1, totalPages)
            IN  /\ page' = v
                /\ goToPageNumber' = (IF v # page THEN v ELSE goToPageNumber)
                /\ (v = page => /\ scrollEmitted' = 0
                                /\ goToResetTimer' = goToResetTimer)
     /\ \A d \in {-1, 1} :
          ArrowKey(d) =>
            /\ page' = Clamp(page + d, 1, totalPages)
            /\ goToPageNumber' = goToPageNumber]_vars

\* a request beyond the last page was clamped to it and became the target
C4_Witness ==
  /\ navLog # <<>>
  /\ navLog[Len(navLog)].target > totalPages
  /\ page = totalPages
  /\ goToPageNumber = totalPages
  /\ totalPages > 1

\* C5: whenever the page count is positive, 1 <= page <= page count
C5_PageInRange ==
  /\ totalPages > 0 => (1 <= page /\ page <= totalPages)
  /\ numPages > 0 => (1 <= page /\ page <= numPages)

\* the short document has replaced a longer one (the target 3 requested in
\* the longer one is still pending) and the page has changed since
C5_Witness ==
  /\ DocumentShown
  /\ numPages = 2
  /\ goToPageNumber = 3
  /\ page = 2

\* C6: renderedPages is a subset of [1, numPages]
C6_RenderedWithinDocument == renderedPages \subseteq 1..numPages

\* the short document is loading in place of the long one and a batch has
\* been handled since the file changed
C6_Witness ==
  /\ loading
  /\ docKind = ShortDoc
  /\ numPages = MaxPages
  /\ renderedPages # {}

\* the text run a match points at belongs to the document now open
FromCurrentDocument(m) ==
  LET items == TextOf(docKind, m.pageIndex + 1)
  IN  m.itemIndex + 1 \in DOMAIN items /\ items[m.itemIndex + 1] = m.text

\* C7: opening a document leaves no matches, a current match index of -1 and
\* an empty text index, and the results that the search effect reports only
\* hold matches found in text runs of the document that is open.
C7_SearchClearedOnOpen ==
  [][/\ (\E k \in Kinds : OpenFile(k)) =>
          /\ searchMatches' = <<>>
          /\ currentMatchIndex' = -1
          /\ textItemsByPage' = NoPages
     /\ resultsEmitted' =>
          (\A i \in DOMAIN searchMatches : FromCurrentDocument(searchMatches[i]))'
    ]_vars

\* C8: the sizes recorded for the pages of a document are not used once
\* another document has been opened: a scale reported by the fit-width effect
\* is the fallback 1 or is computed from the size of a page of the document
\* that is open.
C8_GeometryClearedOnReplace ==
  (scaleEmitted # <<>> /\ scaleEmittedBy = "calculatingFitWidth") =>
       \/ scaleEmitted = <<1, 1>>
       \/ \E p \in 1..PagesOf(docKind) :
            RatEq(scaleEmitted, <<pageContainerSize.width, GeomOf(docKind, p).width>>)

\* C9: after a failed load no page is rendered, the text index is empty,
\* there are no matches and the current match index is -1.
C9_LoadFailureClears ==
  [][LoadError => /\ renderedPages' = {}
                  /\ textItemsByPage' = NoPages
                  /\ searchMatches' = <<>>
                  /\ currentMatchIndex' = -1
    ]_vars

\* the intrinsic size of page p has been recorded
KnownGeometry(p) ==
  p \in DOMAIN originalPageDimensionsRef /\ originalPageDimensionsRef[p].width > 0

\* C10: when the fit-width effect reports a scale while the size of the
\* reference page (the current page) is recorded and the container has a
\* positive width, the scale is the container width divided by the recorded
\* width of that page.
C10_FitWidthScale ==
  (/\ scaleEmitted # <<>>
   /\ scaleEmittedBy = "calculatingFitWidth"
   /\ KnownGeometry(page)
   /\ pageContainerSize.width > 0) =>
    RatEq(scaleEmitted, <<pageContainerSize.width, originalPageDimensionsRef[page].width>>)

\* reached: 300 / 600 reported for page 1, and 600 / 800 for page 2
C10_Witness ==
  /\ scaleEmitted # <<>>
  /\ scaleEmittedBy = "calculatingFitWidth"
  /\ KnownGeometry(page)
  /\ \/ page = 1 /\ pageContainerSize.width = 300
                 /\ originalPageDimensionsRef[1].width = 600
                 /\ RatEq(scaleEmitted, <<1, 2>>)
     \/ page = 2 /\ pageContainerSize.width = 600
                 /\ originalPageDimensionsRef[2].width = 800
                 /\ RatEq(scaleEmitted, <<3, 4>>)

\* the target of a fit-page computation: the explicit target when there is
\* one, the page container otherwise
FitTarget ==
  IF calculationTargetDimensions # <<>> THEN calculationTargetDimensions
                                        ELSE pageContainerSize

\* a fit-page scale has been reported for the current page, whose size is
\* recorded, and for a target with positive width and height
FitPageCase ==
  /\ scaleEmitted # <<>>
  /\ scaleEmittedBy = "calculatingFitPage"
  /\ page \in DOMAIN originalPageDimensionsRef
  /\ originalPageDimensionsRef[page].width > 0
  /\ originalPageDimensionsRef[page].height > 0
  /\ FitTarget.width > 0
  /\ FitTarget.height > 0

\* min(targetWidth / intrinsicWidth, targetHeight / intrinsicHeight)
FitPageMin ==
  RatMin(<<FitTarget.width, originalPageDimensionsRef[page].width>>,
         <<FitTarget.height, originalPageDimensionsRef[page].height>>)

\* C11 as stated: the fit-page scale reported with known geometry and a
\* positive target is min(targetWidth / width, targetHeight / height).
C11_FitPageIsMin ==
  FitPageCase => RatEq(scaleEmitted, FitPageMin)

\* C11: the fit-page scale reported with known geometry and a positive target
\* is min(targetWidth / width, targetHeight / height) when that is more than
\* 0.01, and 1 otherwise.
C11_FitPageIsMinOrFallback ==
  FitPageCase =>
    IF FitPageMin[1] * 100 > FitPageMin[2]
      THEN RatEq(scaleEmitted, FitPageMin)
      ELSE scaleEmitted = <<1, 1>>

\* reached: in fullscreen, min(1200/800, 800/600) = 4/3 reported for page 2
C11_Witness ==
  /\ FitPageCase
  /\ page = 2
  /\ calculationTargetDimensions = [width |-> 1200, height |-> 800]
  /\ originalPageDimensionsRef[2] = [width |-> 800, height |-> 600]
  /\ RatEq(scaleEmitted, <<4, 3>>)

\* C12: the scale applied to the pages, zoom / 100, is a number greater
\* than 0: a fraction with a positive numerator and a positive denominator.
C12_ScalePositive ==
  /\ zoom \in Nat \X Nat
  /\ zoom[1] > 0
  /\ zoom[2] > 0

\* reached: a fit-width result below the range of the zoom controls (5 / 400
\* of a page, 1.25 percent) is the zoom
C12_Witness ==
  /\ viewMode = "default"
  /\ zoom = <<5, 4>>

\* the lower-cased run contains the lower-cased query at 0-based position s
ContainsAt(run, query, s) ==
  LET runLower == ToLowerCase(run)
      queryLower == ToLowerCase(query)
  IN  /\ s + Len(queryLower) <= Len(runLower)
      /\ \A j \in 1..Len(queryLower) : runLower[s + j] = queryLower[j]

\* the runs of the text index within the document: <<page, item>>, 1-based
IndexedRuns ==
  {pi \in (DOMAIN textItemsByPage \cap (1..numPages)) \X (1..4) :
     pi[2] \in DOMAIN textItemsByPage[pi[1]]}

\* the matches reported for run <<page, item>>
MatchesOf(pi) ==
  {i \in DOMAIN searchMatches : /\ searchMatches[i].pageIndex = pi[1] - 1
                                /\ searchMatches[i].itemIndex = pi[2] - 1}

\* C13: the results reported for a non-blank query hold, for every indexed
\* run, one match for each position at which the lower-cased run contains the
\* lower-cased query and no other match, and each match ends at its start
\* plus the length of the query, within the run.
C13_MatchesAreOccurrences ==
  resultsEmitted =>
    /\ \A pi \in IndexedRuns :
         LET run == textItemsByPage[pi[1]][pi[2]]
         IN  /\ {searchMatches[i].startIndexInItem : i \in MatchesOf(pi)}
                  = {s \in 0..Len(ToLowerCase(run)) : ContainsAt(run, searchQuery, s)}
             /\ Cardinality(MatchesOf(pi))
                  = Cardinality({s \in 0..Len(ToLowerCase(run)) :
                                   ContainsAt(run, searchQuery, s)})
             /\ \A i \in MatchesOf(pi) :
                  /\ searchMatches[i].endIndexInItem
                       = searchMatches[i].startIndexInItem + Len(searchQuery)
                  /\ searchMatches[i].endIndexInItem <= Len(run)
    /\ \A i \in DOMAIN searchMatches :
         <<searchMatches[i].pageIndex + 1, searchMatches[i].itemIndex + 1>> \in IndexedRuns

\* <<pageNumber, itemIndex, startOffset>> of a match
MatchKey(m) == <<m.pageIndex + 1, m.itemIndex, m.startIndexInItem>>

\* lexicographic order on keys
KeyLess(a, b) ==
  \/ a[1] < b[1]
  \/ a[1] = b[1] /\ a[2] < b[2]
  \/ a[1] = b[1] /\ a[2] = b[2] /\ a[3] < b[3]

\* C14: the matches are in strictly ascending order of (page, item, start),
\* so no (page, item, start) occurs twice.
C14_MatchesOrdered ==
  \A i \in DOMAIN searchMatches :
    i > 1 => KeyLess(MatchKey(searchMatches[i - 1]), MatchKey(searchMatches[i]))

\* reached: results with matches on both pages, in two items of page 2, and
\* two matches in one item
C14_Witness ==
  /\ resultsEmitted
  /\ \E i, j, k \in DOMAIN searchMatches :
       /\ searchMatches[i].pageIndex = 0
       /\ searchMatches[j].pageIndex = 1 /\ searchMatches[j].itemIndex = 0
       /\ searchMatches[k].pageIndex = 1 /\ searchMatches[k].itemIndex = 1
  /\ \E i \in DOMAIN searchMatches :
       /\ i > 1
       /\ searchMatches[i - 1].pageIndex = searchMatches[i].pageIndex
       /\ searchMatches[i - 1].itemIndex = searchMatches[i].itemIndex

\* C15: submitting a query that is empty or only whitespace leaves no
\* matches and a current match index of -1, does not advance the search
\* trigger and makes the viewer report no results.
C15_BlankSubmitClears ==
  [][(SearchSubmit /\ \A i \in DOMAIN searchQuery : searchQuery[i] = " ") =>
       /\ searchMatches' = <<>>
       /\ currentMatchIndex' = -1
       /\ searchTriggerCounter' = searchTriggerCounter
       /\ ~resultsEmitted'
    ]_vars

\* reached: after a search, the query is whitespace, the trigger has advanced
\* once and the matches are cleared
C15_Witness ==
  /\ searchQuery = <<" ">>
  /\ searchTriggerCounter = 1
  /\ searchMatches = <<>>
  /\ currentMatchIndex = -1

\* currentIndex after k calls of nextMatch from index i with n matches
RECURSIVE AfterNexts(_, _, _)
AfterNexts(i, n, k) == IF k = 0 THEN i ELSE AfterNexts((i + 1) % n, n, k - 1)

\* C16: with n > 0 matches nextMatch sets the current index to
\* (index + 1) mod n and previousMatch to (index - 1 + n) mod n, and n
\* nextMatch calls lead back to the index they started from; with no matches
\* both leave the index as it is.
C16_MatchNavigationCyclic ==
  [][LET n == Len(searchMatches)
     IN  /\ NextMatch =>
              currentMatchIndex' = (IF n > 0 THEN (currentMatchIndex + 1) % n
                                             ELSE currentMatchIndex)
         /\ PreviousMatch =>
              currentMatchIndex' = (IF n > 0 THEN (currentMatchIndex - 1 + n) % n
                                             ELSE currentMatchIndex)
         /\ n > 0 => AfterNexts(currentMatchIndex, n, n) = currentMatchIndex
    ]_vars

\* reached: the last of at least three matches is the current one, which
\* only nextMatch or previousMatch can bring about
C16_Witness ==
  /\ Len(searchMatches) >= 3
  /\ currentMatchIndex = Len(searchMatches) - 1

\* C17: the current match index is -1 when there are no matches and an index
\* into the matches otherwise.
C17_CurrentIndexValid ==
  IF searchMatches = <<>>
    THEN currentMatchIndex = -1
    ELSE currentMatchIndex \in 0..(Len(searchMatches) - 1)

\* reached: after a document was opened over a search whose last match was
\* current, that match is still current
C17_Witness ==
  /\ loading
  /\ Len(searchMatches) >= 2
  /\ currentMatchIndex = Len(searchMatches) - 1

\* C18: a step that closes the search input leaves the query and the matches
\* empty and the current match index at -1 and reports no results, and
\* results are reported only while a search submitted after the latest
\* closing is active, whatever text is indexed in between.
C18_CloseSearchSilences ==
  [][/\ (showSearchInput /\ ~showSearchInput') =>
          /\ searchQuery' = <<>>
          /\ searchMatches' = <<>>
          /\ currentMatchIndex' = -1
          /\ ~resultsEmitted'
     /\ resultsEmitted' => searchSession' = "submitted"
    ]_vars

\* reached: the search input was closed and shown again, a query that occurs
\* in the indexed text was typed but not submitted, every page is indexed and
\* no match is reported
C18_Witness ==
  /\ searchSession = "closed"
  /\ showSearchInput
  /\ numPages > 0
  /\ pendingText = {}
  /\ searchQuery = <<"A", "t">>
  /\ AllMatches(1, numPages, textItemsByPage, searchQuery) # <<>>
  /\ searchMatches = <<>>
  /\ currentMatchIndex = -1

\* C19: while a loaded document stays open, a step never removes a page from
\* renderedPages.
C19_RenderSetNeverShrinks ==
  [][(/\ numPages > 0
      /\ ~loading /\ ~loading'
      /\ ~loadError /\ ~loadError') =>
       renderedPages \subseteq renderedPages'
    ]_vars

\* C20: an arrow key or a debounced visible-page report makes the clamped
\* page the current page, leaves the scroll target and its reset timer as
\* they are and scrolls no page into view.
C20_NonExplicitNeverScrolls ==
  [][/\ \A d \in {-1, 1} :
          ArrowKey(d) => page' = Clamp(page + d, 1, totalPages)
     /\ (VisiblePageTimeoutFires /\ TopVisiblePage(visiblePageTimeout) # 0) =>
          page' = Clamp(TopVisiblePage(visiblePageTimeout), 1, totalPages)
     /\ ((\E d \in {-1, 1} : ArrowKey(d)) \/ VisiblePageTimeoutFires) =>
          /\ goToPageNumber' = goToPageNumber
          /\ goToResetTimer' = goToResetTimer
          /\ lastProgrammaticScrollToPageRef' = lastProgrammaticScrollToPageRef
          /\ scrollEmitted' = 0
    ]_vars

\* reached: page 3 was requested and scrolled to and, while it still is the
\* target, a visible-page report has made page 2 the current page
C20_Witness ==
  /\ goToPageNumber = 3
  /\ lastProgrammaticScrollToPageRef = 3
  /\ page = 2
  /\ navLog # <<>>
  /\ navLog[Len(navLog)].target = 3
  /\ navLog[Len(navLog)].scrolled
  /\ navLog[Len(navLog)].timerAfter
  /\ scrollEmitted = 0

\* C21: a step that scrolls a page into view for an explicit request finds
\* that page in renderedPages.
C21_ScrollTargetAdmitted ==
  [][scrollEmitted' # 0 => scrollEmitted' \in renderedPages]_vars

\* a step that asks for a fit: the Fit Width and Fit Page buttons, and the
\* fullscreen handler on entering and on leaving fullscreen
FitRequested ==
  \/ FitWidthClick
  \/ FitPageClick
  \/ ExitFullScreen
  \/ \E target \in TargetSizes : FullScreenFrame(target)

\* C22: a step in which a fit effect reports a scale ends in view mode
\* 'default' with zoom = scale * 100 and no retry pending, and in view mode
\* 'default' only a step that asks for a fit reports a scale: a resize or a
\* zoom control does not.
C22_FitIsOneShot ==
  [][/\ scaleEmitted' # <<>> =>
          /\ viewMode' = "default"
          /\ fitRetry' = 0
          /\ RatEq(zoom', <<scaleEmitted'[1] * 100, scaleEmitted'[2]>>)
     /\ (viewMode = "default" /\ scaleEmitted' # <<>>) => FitRequested
    ]_vars

\* reached: fit-width reported 5 / 400 in a container 5 wide; the container
\* is 600 wide now and the zoom is still 1.25
C22_Witness ==
  /\ viewMode = "default"
  /\ zoom = <<5, 4>>
  /\ pageContainerSize.width = 600
  /\ scaleEmitted = <<>>
  /\ fitRetry = 0

\* C23: the zoom percentage lies within the range of the wheel zoom, 10 to 400.
C23_ZoomWithinRange == RatLeq(<<10, 1>>, zoom) /\ RatLeq(zoom, <<400, 1>>)

\* C24: a text completion started for a document that has been replaced
\* since changes neither the recorded page sizes nor the text index.
C24_StaleCompletionDiscarded ==
  [][\A t \in pendingText :
       (TextResolved(t) /\ t.kind # docKind) =>
         UNCHANGED <<textItemsByPage, originalPageDimensionsRef>>
    ]_vars

\* C25: while a fit retry is pending only a step that asks for a fit starts
\* a retry timeout, and the retry callback reports a scale: the one computed
\* from the recorded size of the reference page, or 1 when there is none.
C25_SingleRetry ==
  [][/\ (fitRetry # 0 /\ retryArmed') => FitRequested
     /\ FitRetryFires =>
          /\ scaleEmitted' # <<>>
          /\ fitRetry' = 0
          /\ ~KnownGeometry(fitRetry) => scaleEmitted' = <<1, 1>>
    ]_vars

\* C26: a scale reported by a fit effect, on the direct path or by the retry
\* callback, is greater than 0.01.
C26_NoDegenerateScale ==
  scaleEmitted # <<>> => scaleEmitted[1] * 100 > scaleEmitted[2]

\* the reset timeout fires: no scroll target is left and none is recorded as
\* the last one, and from there an explicit request for a page other than
\* the current one scrolls to it
ResetRearms ==
  [][/\ GoToResetFires =>
          (goToPageNumber' = 0 /\ lastProgrammaticScrollToPageRef' = 0)
     /\ \A p \in PageRefs :
          (goToPageNumber = 0 /\ page # p /\ GoToPage(p)) => scrollEmitted' = p
    ]_vars

\* C27 as stated: ... and a pending reset is always eventually performed.
C27_ResetAlwaysPerformed ==
  /\ ResetRearms
  /\ goToResetTimer ~> ~goToResetTimer

\* C27 as amended: ... and a pending reset is eventually performed unless an
\* explicit request changes the scroll target first, which starts the delay
\* again.
C27_ResetPerformedOrRestarted ==
  /\ ResetRearms
  /\ \A g \in 1..PagesOf(MidDoc) :
       (goToResetTimer /\ goToPageNumber = g)
         ~> (~goToResetTimer \/ goToPageNumber # g)

\* reached: page 2 was requested and scrolled to, the reset fired, the user
\* left page 2, and the second request for page 2 has scrolled to it again
C27_Witness ==
  /\ Len(navLog) = 2
  /\ navLog[1].target = 2 /\ navLog[2].target = 2
  /\ navLog[1].scrolled /\ navLog[1].timerAfter
  /\ navLog[2].scrolled
  /\ scrollEmitted = 2
  /\ goToPageNumber = 2

\* C28: an explicit request that sets a scroll target whose page element
\* does not exist scrolls nothing and leaves the recorded last programmatic
\* target as it is, and only an explicit request scrolls a page into view:
\* a document load that creates the element does not.
C28_MissingTargetDropped ==
  [][/\ \A n \in Requests :
          (/\ GoToPage(n)
           /\ goToPageNumber' # goToPageNumber
           /\ goToPageNumber' \notin PageRefs) =>
            /\ scrollEmitted' = 0
            /\ lastProgrammaticScrollToPageRef' = lastProgrammaticScrollToPageRef
     /\ scrollEmitted' # 0 => \E n \in Requests : GoToPage(n)
    ]_vars

\* reached: a page was requested while its element did not exist; the
\* document is shown now, the page has its element and is still the scroll
\* target, and it was not scrolled to
C28_Witness ==
  /\ DocumentShown
  /\ goToPageNumber \in PageRefs
  /\ goToResetTimer
  /\ lastProgrammaticScrollToPageRef # goToPageNumber
  /\ scrollEmitted = 0

\* C29: a keystroke that leaves the query non-empty and the arrival of a
\* page's text change neither the matches nor the current match index.
C29_OnlySubmitRecomputes ==
  [][/\ \A value \in Queries \ {<<>>} :
          SearchQueryChange(value) => UNCHANGED <<searchMatches, currentMatchIndex>>
     /\ \A t \in pendingText :
          TextResolved(t) => UNCHANGED <<searchMatches, currentMatchIndex>>
    ]_vars

\* C30: of two matches within the same text run, the later one starts at or
\* after the end of the earlier one.
C30_MatchesDoNotOverlap ==
  \A i, j \in DOMAIN searchMatches :
    (/\ i < j
     /\ searchMatches[i].pageIndex = searchMatches[j].pageIndex
     /\ searchMatches[i].itemIndex = searchMatches[j].itemIndex) =>
      searchMatches[j].startIndexInItem >= searchMatches[i].endIndexInItem

\* C31: the step in which a document with n pages finishes loading leaves in
\* renderedPages exactly the pages 1..min(n, 4) and the pages of 1..n within
\* 3 of the page that was current when the load finished.
C31_InitialRenderSet ==
  [][LoadSuccess =>
       renderedPages' =
         { i \in 1..numPages' : i <= PAGES_TO_PRELOAD_BUFFER + 1 }
           \cup { i \in 1..numPages' : /\ page - PAGES_TO_PRELOAD_BUFFER <= i
                                      /\ i <= page + PAGES_TO_PRELOAD_BUFFER }
    ]_vars

\* reached: the long document has just loaded over a current page far from
\* page 1, so the last page is rendered although no batch was handled
C31_Witness ==
  /\ pdfFile # 0
  /\ numPages = MaxPages
  /\ docKind = LongDoc
  /\ ~loading
  /\ MaxPages \in renderedPages
  /\ observedRendered = renderedPages
  /\ ~renderPending
  /\ visiblePageTimeout = NoTimeout
  /\ page = 1

\* C32: a scroll event sets the recent-scroll flag and leaves the timeout it
\* starts as the only pending one; the flag is lowered only by the firing of
\* the timeout of the latest scroll event; and unless scroll events keep
\* coming, the flag ends up lowered for good.
C32_QuietPeriod ==
  /\ [][(UserScroll =>
            /\ userHadRecentScroll'
            /\ userScrollTimers' = {userScrollTimeoutRef'}
            /\ userScrollTimeoutRef' # userScrollTimeoutRef)
        /\ (userHadRecentScroll /\ ~userHadRecentScroll' =>
              /\ userScrollTimers = {userScrollTimeoutRef}
              /\ userScrollTimers' = {})
       ]_vars
  /\ ([]<><<UserScroll>>_vars) \/ (<>[]~userHadRecentScroll)

\* reached: a second scroll event came while the timeout of the first was
\* pending
C32_Witness ==
  /\ userHadRecentScroll
  /\ userScrollTimeoutRef = 2
  /\ userScrollTimers = {2}

\* C33 as stated: every explicit request made while the recent-scroll flag is
\* up scrolls to its target.
C33_AlwaysScrolls ==
  [][\A n \in 1..PagesOf(MidDoc) :
       GoToPage(n) /\ userHadRecentScroll /\ n <= totalPages =>
         scrollEmitted' = n
    ]_vars

\* C33, amended: an explicit request made while the recent-scroll flag is up scrolls
\* to its target exactly as it would with the flag down: whenever the target
\* differs from the current page, from the pending goToPageNumber and from
\* the last recorded programmatic target and its page element exists, and
\* only then.
C33_RequestDuringUserScroll ==
  [][\A n \in 1..PagesOf(MidDoc) :
       GoToPage(n) /\ userHadRecentScroll /\ n <= totalPages =>
         /\ scrollEmitted' \in {0, n}
         /\ scrollEmitted' = n <=>
              /\ n # page
              /\ n # goToPageNumber
              /\ n # lastProgrammaticScrollToPageRef
              /\ DocumentShown
              /\ n <= numPages
         /\ userHadRecentScroll'
    ]_vars

\* reached: a request has just scrolled while the quiet timeout of a scroll
\* event was pending
C33_Witness ==
  /\ userHadRecentScroll
  /\ userScrollTimers # {}
  /\ scrollEmitted # 0
  /\ goToPageNumber = scrollEmitted

\* C34: the step that handles a batch leaves the current page alone; the
\* timeout that fires for the batch afterwards makes current the page of an
\* intersecting entry of that batch whose top is not above the top of any
\* other intersecting entry of it.
C34_TopmostReportedLater ==
  [][/\ (visiblePageTimeout' # NoTimeout /\ HandleIntersect(visiblePageTimeout')) =>
          page' = page
     /\ VisiblePageTimeoutFires =>
          LET batch == visiblePageTimeout
              seen == { k \in 1..Len(batch) : batch[k].isIntersecting }
          IN  seen # {} =>
                \E k \in seen :
                  /\ \A j \in seen : batch[k].top <= batch[j].top
                  /\ page' = batch[k].pageNumber
    ]_vars

\* reached: a batch of two intersecting pages whose second entry has the
\* smaller top awaits its timeout, and the current page is still another one
C34_Witness ==
  /\ ~renderPending
  /\ Len(visiblePageTimeout) = 2
  /\ visiblePageTimeout[1].isIntersecting
  /\ visiblePageTimeout[2].isIntersecting
  /\ visiblePageTimeout[2].top < visiblePageTimeout[1].top
  /\ page # visiblePageTimeout[2].pageNumber

\* C38: a batch replaces the pending report, so one report at most is
\* pending and it is that of the latest batch; when its timeout fires nothing
\* stays pending, the current page changes only to the page of an
\* intersecting entry of that batch, and a batch without intersecting entry
\* changes neither the current page nor anything else of the navigation.
C38_LatestBatchOnly ==
  [][/\ (visiblePageTimeout' # NoTimeout /\ HandleIntersect(visiblePageTimeout')) =>
          page' = page
     /\ VisiblePageTimeoutFires =>
          LET batch == visiblePageTimeout
              seen == { k \in 1..Len(batch) : batch[k].isIntersecting }
          IN  /\ visiblePageTimeout' = NoTimeout
              /\ page' # page => \E k \in seen : page' = batch[k].pageNumber
              /\ seen = {} =>
                    UNCHANGED <<page, goToPageNumber, goToResetTimer,
                                lastProgrammaticScrollToPageRef, zoom, viewMode>>
    ]_vars

\* reached: the latest batch, awaiting its timeout, has no intersecting entry
C38_Witness ==
  /\ ~renderPending
  /\ visiblePageTimeout # NoTimeout
  /\ \A k \in 1..Len(visiblePageTimeout) : ~visiblePageTimeout[k].isIntersecting
  /\ page # visiblePageTimeout[1].pageNumber

\* the text runs a page of the documents can have, by itemIndex
ItemIndexes == 0..1

Marker(p, i) == TextRenderer(p, i, searchQuery, searchMatches, currentMatchIndex)

\* C35: a text run gets a marker iff some match has its page and itemIndex,
\* and the marker of the current match iff the match at currentMatchIndex
\* is one of them; with an empty query, no matches or currentMatchIndex -1 no
\* run has the marker of the current match, and never two runs have it.
C35_HighlightFlags ==
  /\ \A p \in 1..PagesOf(MidDoc), i \in ItemIndexes :
       /\ Marker(p, i) # "" <=>
            \E k \in 1..Len(searchMatches) :
              /\ searchMatches[k].pageIndex = p - 1
              /\ searchMatches[k].itemIndex = i
       /\ Marker(p, i) = "::highlightCurrent" <=>
            /\ currentMatchIndex \in 0..Len(searchMatches) - 1
            /\ searchMatches[currentMatchIndex + 1].pageIndex = p - 1
            /\ searchMatches[currentMatchIndex + 1].itemIndex = i
       /\ (searchQuery = <<>> \/ searchMatches = <<>> \/ currentMatchIndex = -1) =>
            Marker(p, i) # "::highlightCurrent"
  /\ Cardinality({ r \in (1..PagesOf(MidDoc)) \X ItemIndexes :
                     Marker(r[1], r[2]) = "::highlightCurrent" }) <= 1

\* reached: two runs are matched and the second match is the current one,
\* so the second run has the marker of the current match and the first the
\* plain one
C35_Witness ==
  /\ Len(searchMatches) = 2
  /\ currentMatchIndex = 1
  /\ Marker(1, 0) = "::highlight"
  /\ Marker(2, 0) = "::highlightCurrent"

\* C36: once a load has failed and a valid document is open, the load error
\* is eventually cleared with the page count of a valid document reported
\* (or a corrupt document is opened in its place).
C36_LoadAfterFailure ==
  (pdfFile # 0 /\ loadError /\ ~Corrupt(docKind))
    ~> \/ pdfFile # 0 /\ Corrupt(docKind)
       \/ pdfFile # 0 /\ ~loadError /\ ~loading /\ numPages = PagesOf(docKind)

\* C37: when the viewer is not in fullscreen and neither the animation frame
\* of a fullscreen entry nor a fit retry is outstanding, the target
\* dimensions are null, so no fit-page computation for a fullscreen target
\* is under way.
C37_NoFullScreenTargetOutside ==
  (~isFullScreen /\ ~fullScreenFrame /\ fitRetry = 0) =>
    calculationTargetDimensions = <<>>

\* C39: the Zoom Out button never raises the zoom percentage and the Zoom In
\* button never lowers it.
C39_ZoomButtonsMonotone ==
  [][/\ ZoomOut => RatLeq(zoom', zoom)
     /\ ZoomIn => RatLeq(zoom, zoom')
    ]_vars

====
